---- MODULE Spec2Model ----
(***************************************************************************)
(* Model of supabase_automation.py: the paginated table export             *)
(* (export_database_paginated), the Drive upload (upload_to_drive) and the *)
(* pipeline that runs them for the two tables (weekly_backup).             *)
(*                                                                         *)
(* The table store, the row counter and the Drive API are external: each   *)
(* call to them either succeeds or raises.  Tables are static during a     *)
(* run; a table of n rows has the unique ascending keys 1..n in its key    *)
(* column.  A run starts in a fresh working directory.                     *)
(***************************************************************************)
EXTENDS Integers, Sequences, FiniteSets, TLC

\* ------------------------------------------------------------------ bounds
MaxRows == 3
MaxPageSize == 3
MaxFailures == 2
PageWrap == 8

\* --------------------------------------------------------------- constants
Tables == {"leads_db", "orgs_db"}

\* Column lists a table's first row may have (keys of first_row.data[0]).
Schemas == {<<"id", "name">>, <<"name", "uuid">>, <<"email", "name">>}

\* last_id = None
None == <<"none">>

\* A real key value held in last_id.
KeyVal(k) == <<"key", k>>

\* f"approximate_batch_{page}"
ApproxToken(p) == <<"approximate_batch", p>>

\* f"{table_name}_{date}.csv"
Filename(t) == [table |-> t, partial |-> FALSE]

\* f"{table_name}_{date}_PARTIAL.csv"
PartialFilename(t) == [table |-> t, partial |-> TRUE]

\* The value of leads_file / orgs_file before the export has returned.
NoPath == [table |-> "", partial |-> FALSE]

VARIABLES
    db,             \* the table store: db[t] = [headers, n, ragged], static
    page_size,      \* page_size of the export loop
    pc,             \* position of weekly_backup
    epc,            \* position inside export_database_paginated
    headers,        \* headers of the running export
    id_field,       \* id_field of the running export
    total_count,    \* total_count of the running export
    page,           \* page
    rows_exported,  \* rows_exported
    more_data,      \* more_data
    last_id,        \* last_id
    fs,             \* local disk: path -> [header, rows], for existing files
    credentials,    \* TRUE iff credentials.json exists on local disk
    leads_file,     \* weekly_backup's leads_file
    orgs_file,      \* weekly_backup's orgs_file
    hist            \* history of the run, per table (observation only)

vars == <<db, page_size, pc, epc, headers, id_field, total_count, page,
          rows_exported, more_data, last_id, fs, credentials, leads_file,
          orgs_file, hist>>

exportLocals == <<headers, id_field, total_count, page, rows_exported,
                  more_data, last_id>>

\* ---------------------------------------------------------------- helpers
Min(a, b) == IF a < b THEN a ELSE b

\* The keys of table t, in the store.
KeysOf(t) == 1 .. db[t].n

\* The elements of a finite set of integers as an ascending sequence
\* (query.order(id_field, desc=False)).
Ascending(S) ==
    CHOOSE s \in [1 .. Cardinality(S) -> S] :
        /\ \A i \in 1 .. Cardinality(S) : \A j \in 1 .. Cardinality(S) :
               i < j => s[i] < s[j]

\* The cursor filter written with gte instead of gt.
PassesCursor_gte(k, cursor) ==
    IF cursor = None THEN TRUE
    ELSE IF cursor[1] = "key" THEN k >= cursor[2]
    ELSE FALSE

\* query.gt(id_field, last_id): does key k pass the cursor filter?
\* No filter when last_id is None; a placeholder token is text that sorts
\* after every numeric key, so no key is greater than it.
PassesCursor(k, cursor) ==
    IF cursor = None THEN TRUE
    ELSE IF cursor[1] = "key" THEN k > cursor[2]
    ELSE FALSE

\* A batch query built without the cursor condition.
BatchRows_nocursor(t, cursor, limit) ==
    LET a == Ascending(KeysOf(t))
    IN  SubSeq(a, 1, Min(limit, Len(a)))

\* The rows one batch query returns: key > cursor, ascending, at most limit.
BatchRows(t, cursor, limit) ==
    LET S == {k \in KeysOf(t) : PassesCursor(k, cursor)}
        a == Ascending(S)
    IN  SubSeq(a, 1, Min(limit, Len(a)))

\* id_field resolution.
FirstIn(cands, hs) ==
    LET I == {i \in 1 .. Len(cands) : \E j \in 1 .. Len(hs) : hs[j] = cands[i]}
        m == CHOOSE i \in I : \A k \in I : i <= k
    IN  cands[m]

\* A resolution that keeps the default.
IdField_default(hs) == "id"

IdField(hs) ==
    IF \E j \in 1 .. Len(hs) : hs[j] = "id" THEN "id"
    ELSE FirstIn(<<"uuid", "primary_key", "key", hs[1]>>, hs)

\* The value of column c in the row of key k.
Cell(c, k) == <<c, k>>

\* The default "" of row.get(header, "").
Empty == <<"">>

\* The columns of the row of key k of table t.  The first row has exactly
\* the columns the structure query reports; in a ragged table the rows of
\* even key hold only the key column and a column the first row lacks.
RowCols(t, k) ==
    LET hs == db[t].headers
    IN  IF db[t].ragged /\ k % 2 = 0
        THEN {IdField(hs), "extra"}
        ELSE {hs[i] : i \in 1 .. Len(hs)}

\* The row of key k of table t, a mapping from column name to value.
Row(t, k) == [c \in RowCols(t, k) |-> Cell(c, k)]

\* A writer that emits the row's own values, ignoring the header.
RowValues_own(row, hs) ==
    LET cs == DOMAIN row
        cols == CHOOSE q \in [1 .. Cardinality(cs) -> cs] :
                    \A i, j \in 1 .. Cardinality(cs) : i # j => q[i] # q[j]
    IN  [i \in 1 .. Cardinality(cs) |-> row[cols[i]]]

\* row_values = [row.get(header, "") for header in headers]
RowValues(row, hs) ==
    [i \in 1 .. Len(hs) |-> IF hs[i] \in DOMAIN row THEN row[hs[i]] ELSE Empty]

\* A file opened in append mode: an existing file keeps its records and
\* the header is written after them.
WriteFile_append(disk, p, c) ==
    IF p \in DOMAIN disk
    THEN [disk EXCEPT ![p].rows = @ \o <<c.header>>]
    ELSE [q \in (DOMAIN disk) \cup {p} |-> IF q = p THEN c ELSE disk[q]]

\* Local disk operations.
Exists(disk, p) == p \in DOMAIN disk

WriteFile(disk, p, c) ==
    [q \in (DOMAIN disk) \cup {p} |-> IF q = p THEN c ELSE disk[q]]

RemoveFile(disk, p) == [q \in (DOMAIN disk) \ {p} |-> disk[q]]

Rename(disk, src, dst) ==
    [q \in ((DOMAIN disk) \ {src}) \cup {dst} |->
        IF q = dst THEN disk[src] ELSE disk[q]]

AppendRows(disk, p, rs) ==
    [disk EXCEPT ![p].rows = disk[p].rows \o rs]

\* Positions of weekly_backup.
ExportPc(t) == IF t = "leads_db" THEN "export_leads" ELSE "export_orgs"

UploadPc(t) == IF t = "leads_db" THEN "upload_leads" ELSE "upload_orgs"

AfterExport(t) == IF t = "leads_db" THEN "export_orgs" ELSE "upload_leads"

AfterUpload(t) == IF t = "leads_db" THEN "upload_orgs" ELSE "done"

FileVar(t) == IF t = "leads_db" THEN leads_file ELSE orgs_file

\* ------------------------------------------------------------------- Init
\* What is remembered of the export of a table in the run before this one.
NoRun == [outcome |-> "none", failures |-> 0, header |-> <<>>, count |-> 0]

HistInit ==
    [t \in Tables |->
        [run |-> 1,                \* 1 in the first run, 2 in a re-run
         prev |-> NoRun,           \* the export of t in the run before
         attempted |-> FALSE,      \* export_database_paginated(t) was called
         outcome |-> "none",       \* "returned" or "raised"
         returned |-> NoPath,      \* the path the export returned
         header |-> <<>>,          \* header of the returned file
         count |-> 0,              \* number of data records of that file
         structureFailed |-> FALSE, \* the structure query raised
         countFailed |-> FALSE,    \* get_total_rows raised
         fetches |-> 0,            \* batch fetches issued
         empties |-> 0,            \* batch fetches that returned no row
         keyCols |-> {},           \* columns batch queries filtered/ordered by
         failures |-> 0,           \* batch fetches that raised
         failedFirst |-> FALSE,    \* a batch fetch raised with 0 rows written
         failedLater |-> FALSE,    \* a batch fetch raised with > 0 rows written
         upload |-> "none"]]       \* "ok" or "failed"

Init ==
    /\ db \in [Tables -> [headers : Schemas, n : 0 .. MaxRows,
                          ragged : BOOLEAN]]
    /\ page_size \in 1 .. MaxPageSize
    /\ pc = "export_leads"
    /\ epc = "idle"
    /\ headers = <<>>
    /\ id_field = "id"
    /\ total_count = 0
    /\ page = 0
    /\ rows_exported = 0
    /\ more_data = TRUE
    /\ last_id = None
    /\ fs = <<>>
    /\ credentials = FALSE
    /\ leads_file = NoPath
    /\ orgs_file = NoPath
    /\ hist = HistInit

\* ------------------------------------------- export_database_paginated
\* `return path` to weekly_backup.
ExportReturns(t, path, h) ==
    /\ pc' = AfterExport(t)
    /\ epc' = "idle"
    /\ leads_file' = IF t = "leads_db" THEN path ELSE leads_file
    /\ orgs_file' = IF t = "orgs_db" THEN path ELSE orgs_file
    /\ hist' = [h EXCEPT ![t].outcome = "returned",
                         ![t].returned = path,
                         ![t].header = fs'[path].header,
                         ![t].count = Len(fs'[path].rows)]

\* The exception leaves export_database_paginated; weekly_backup's handler
\* prints and re-raises.
ExportRaises(t, h) ==
    /\ pc' = "failed"
    /\ epc' = "idle"
    /\ UNCHANGED <<leads_file, orgs_file>>
    /\ hist' = [h EXCEPT ![t].outcome = "raised"]

\* The outer `except Exception` of the export, entered with the disk as the
\* failing step left it.
ExportExcept(t, disk, h) ==
    IF Exists(disk, Filename(t))
    THEN /\ fs' = Rename(disk, Filename(t), PartialFilename(t))
         /\ ExportReturns(t, PartialFilename(t), h)
    ELSE /\ fs' = disk
         /\ ExportRaises(t, h)

\* The single-row structure query raises.
StructureFails(t) ==
    /\ pc = ExportPc(t) /\ epc = "idle"
    /\ ExportExcept(t, fs, [hist EXCEPT ![t].attempted = TRUE,
                                        ![t].structureFailed = TRUE])
    /\ UNCHANGED <<db, page_size, exportLocals, credentials>>

\* An export that treats a table without rows as an error.
EmptyTable_raises(t) ==
    /\ pc = ExportPc(t) /\ epc = "idle"
    /\ db[t].n = 0
    /\ ExportExcept(t, fs, [hist EXCEPT ![t].attempted = TRUE])
    /\ UNCHANGED <<db, page_size, exportLocals, credentials>>

\* The single-row structure query returns no row: header-only file.
EmptyTable(t) ==
    /\ pc = ExportPc(t) /\ epc = "idle"
    /\ db[t].n = 0
    /\ fs' = WriteFile(fs, Filename(t), [header |-> <<"id">>, rows |-> <<>>])
    /\ ExportReturns(t, Filename(t), [hist EXCEPT ![t].attempted = TRUE])
    /\ UNCHANGED <<db, page_size, exportLocals, credentials>>

\* The single-row structure query returns a row: headers are its keys.
Structure(t) ==
    /\ pc = ExportPc(t) /\ epc = "idle"
    /\ db[t].n > 0
    /\ headers' = db[t].headers
    /\ epc' = "count"
    /\ hist' = [hist EXCEPT ![t].attempted = TRUE]
    /\ UNCHANGED <<db, page_size, pc, id_field, total_count, page,
                   rows_exported, more_data, last_id, fs, credentials,
                   leads_file, orgs_file>>

\* get_total_rows raises, before the output file is opened.
CountFails(t) ==
    /\ pc = ExportPc(t) /\ epc = "count"
    /\ ExportExcept(t, fs, [hist EXCEPT ![t].countFailed = TRUE])
    /\ UNCHANGED <<db, page_size, exportLocals, credentials>>

\* get_total_rows returns; the file is opened, the header written and the
\* loop variables initialised.
CountOk(t) ==
    /\ pc = ExportPc(t) /\ epc = "count"
    /\ total_count' = db[t].n
    /\ fs' = WriteFile(fs, Filename(t), [header |-> headers, rows |-> <<>>])
    /\ page' = 0
    /\ rows_exported' = 0
    /\ more_data' = TRUE
    /\ id_field' = IdField(headers)
    /\ last_id' = None
    /\ epc' = "loop"
    /\ UNCHANGED <<db, page_size, pc, headers, credentials, leads_file,
                   orgs_file, hist>>

\* A loop that runs until a batch comes back empty.
LoopGuard_nototal == more_data

\* while more_data and rows_exported < total_count
LoopGuard == more_data /\ rows_exported < total_count

\* One iteration whose query succeeds.
FetchBatch(t) ==
    /\ pc = ExportPc(t) /\ epc = "loop"
    /\ LoopGuard
    /\ LET rows == BatchRows(t, last_id, page_size)
       IN  IF rows = <<>>
           THEN /\ more_data' = FALSE
                /\ UNCHANGED <<fs, last_id, rows_exported, page>>
           ELSE /\ fs' = AppendRows(fs, Filename(t),
                        [i \in 1 .. Len(rows) |->
                            RowValues(Row(t, rows[i]), headers)])
                /\ last_id' = KeyVal(rows[Len(rows)])
                /\ rows_exported' = rows_exported + Len(rows)
                /\ page' = page + 1
                /\ UNCHANGED more_data
    /\ hist' = [hist EXCEPT
                   ![t].fetches = @ + 1,
                   ![t].keyCols = @ \cup {id_field},
                   ![t].empties =
                       IF BatchRows(t, last_id, page_size) = <<>>
                       THEN @ + 1 ELSE @]
    /\ UNCHANGED <<db, page_size, pc, epc, headers, id_field, total_count,
                   credentials, leads_file, orgs_file>>

\* A recovery policy that never continues.
CanContinue_never(n) == FALSE

\* The inner `except Exception`: continue iff some data was already written.
CanContinue(n) == n > 0

\* A handler that skips one page of keys past the cursor of the failed
\* fetch.
RecoverCursor_skip(cursor, pg) ==
    IF cursor # None THEN KeyVal(cursor[2] + page_size)
    ELSE ApproxToken(pg + 1)

\* A handler that always substitutes the placeholder token.
RecoverCursor_token(cursor, pg) == ApproxToken(pg + 1)

\* A handler that forgets the cursor.
RecoverCursor_reset(cursor, pg) == None

\* The inner `except Exception`: the cursor it leaves when it continues.
\* pg is the page counter before its increment.
RecoverCursor(cursor, pg) ==
    IF cursor # None THEN cursor ELSE ApproxToken(pg + 1)

\* One iteration whose query raises.
FetchBatchFails(t) ==
    /\ pc = ExportPc(t) /\ epc = "loop"
    /\ LoopGuard
    /\ hist[t].failures < MaxFailures
    /\ LET h == [hist EXCEPT ![t].fetches = @ + 1,
                             ![t].keyCols = @ \cup {id_field},
                             ![t].failures = @ + 1,
                             ![t].failedFirst = @ \/ (rows_exported = 0),
                             ![t].failedLater = @ \/ (rows_exported > 0)]
       IN  IF CanContinue(rows_exported)
           THEN /\ page' = page + 1
                /\ last_id' = RecoverCursor(last_id, page)
                /\ hist' = h
                /\ UNCHANGED <<pc, epc, fs, leads_file, orgs_file>>
           ELSE /\ ExportExcept(t, fs, h)
                /\ UNCHANGED <<page, last_id>>
    /\ UNCHANGED <<db, page_size, headers, id_field, total_count,
                   rows_exported, more_data, credentials>>

\* The loop condition is false: the file is closed and its name returned.
LoopExit(t) ==
    /\ pc = ExportPc(t) /\ epc = "loop"
    /\ ~LoopGuard
    /\ UNCHANGED <<db, page_size, exportLocals, fs, credentials>>
    /\ ExportReturns(t, Filename(t), hist)

\* ------------------------------------------------------- upload_to_drive
\* A cleanup that forgets os.remove(filename).
UploadCleanup_keep(disk, p) == disk

\* os.remove(filename) at the end of a successful upload.
UploadCleanup(disk, p) == RemoveFile(disk, p)

\* upload_to_drive(FileVar(t)) returns.
UploadOk(t) ==
    /\ pc = UploadPc(t)
    /\ Exists(fs, FileVar(t))
    /\ fs' = UploadCleanup(fs, FileVar(t))
    /\ credentials' = FALSE
    /\ pc' = AfterUpload(t)
    /\ hist' = [hist EXCEPT ![t].upload = "ok"]
    /\ UNCHANGED <<db, page_size, epc, exportLocals, leads_file, orgs_file>>

\* upload_to_drive(FileVar(t)) raises: either before credentials.json is
\* written (decoding the environment value) or after it (building the
\* service, opening the media file, the create call).
UploadFails(t) ==
    /\ pc = UploadPc(t)
    /\ \E written \in BOOLEAN : credentials' = (credentials \/ written)
    /\ pc' = "failed"
    /\ hist' = [hist EXCEPT ![t].upload = "failed"]
    /\ UNCHANGED <<db, page_size, epc, exportLocals, fs, leads_file,
                   orgs_file>>

\* ------------------------------------------------------------------ Next
Next ==
    \E t \in Tables :
        \/ StructureFails(t)
        \/ EmptyTable(t)
        \/ Structure(t)
        \/ CountFails(t)
        \/ CountOk(t)
        \/ FetchBatch(t)
        \/ FetchBatchFails(t)
        \/ LoopExit(t)
        \/ UploadOk(t)
        \/ UploadFails(t)

Spec == Init /\ [][Next]_vars

\* Outages and re-runs are explored on tables whose rows all have the
\* header's columns.
InitUniform == Init /\ \A t \in Tables : ~db[t].ragged

\* ---------------------------------------------------------------- outage
\* The store stays unavailable: a batch query raises again after the
\* counted failures.  The handler is the one of FetchBatchFails; the page
\* counter, which only feeds log lines and the placeholder token, is kept
\* modulo PageWrap so that an unending outage has finitely many states.
FetchBatchFailsOutage(t) ==
    /\ pc = ExportPc(t) /\ epc = "loop"
    /\ LoopGuard
    /\ hist[t].failures = MaxFailures
    /\ LET h == [hist EXCEPT ![t].keyCols = @ \cup {id_field},
                             ![t].failedFirst = @ \/ (rows_exported = 0),
                             ![t].failedLater = @ \/ (rows_exported > 0)]
       IN  IF CanContinue(rows_exported)
           THEN /\ page' = (page + 1) % PageWrap
                /\ last_id' = RecoverCursor(last_id, page)
                /\ hist' = h
                /\ UNCHANGED <<pc, epc, fs, leads_file, orgs_file>>
           ELSE /\ ExportExcept(t, fs, h)
                /\ UNCHANGED <<page, last_id>>
    /\ UNCHANGED <<db, page_size, headers, id_field, total_count,
                   rows_exported, more_data, credentials>>

NextLive == Next \/ \E t \in Tables : FetchBatchFailsOutage(t)

\* The program is sequential and keeps running: some step is always taken
\* while one is possible.  Whether a query succeeds is the store's choice.
SpecLive == InitUniform /\ [][NextLive]_vars /\ WF_vars(NextLive)

\* ---------------------------------------------------------------- re-run
\* The program is started again (`python supabase_automation.py weekly`)
\* after a run has ended, on the same day: the tables are unchanged, local
\* disk is as the first run left it, everything else starts afresh.
Rerun ==
    /\ pc \in {"done", "failed"}
    /\ \A t \in Tables : hist[t].run = 1
    /\ pc' = "export_leads"
    /\ epc' = "idle"
    /\ headers' = <<>>
    /\ id_field' = "id"
    /\ total_count' = 0
    /\ page' = 0
    /\ rows_exported' = 0
    /\ more_data' = TRUE
    /\ last_id' = None
    /\ leads_file' = NoPath
    /\ orgs_file' = NoPath
    /\ hist' = [t \in Tables |->
                   [HistInit[t] EXCEPT
                       !.run = 2,
                       !.prev = [outcome |-> hist[t].outcome,
                                 failures |-> hist[t].failures,
                                 header |-> hist[t].header,
                                 count |-> hist[t].count]]]
    /\ UNCHANGED <<db, page_size, fs, credentials>>

NextRerun == Next \/ Rerun

SpecRerun == InitUniform /\ [][NextRerun]_vars

\* ---------------------------------------------------------------- claims
Terminated == pc \in {"done", "failed"}

Returned(t) == hist[t].outcome = "returned"

\* The position of column c in header hs.
ColumnIndex(hs, c) == CHOOSE i \in 1 .. Len(hs) : hs[i] = c

\* The keys of the data records of file content f, in file order.
KeysIn(f) ==
    [j \in 1 .. Len(f.rows) |->
        f.rows[j][ColumnIndex(f.header, IdField(f.header))][2]]

\* The keys of the data records of the file the export of t returned.
RowsOf(t) == KeysIn(fs[hist[t].returned])

\* The keys 1..n in ascending order.
AllRows(t) == [i \in 1 .. db[t].n |-> i]

\* C1: with no failing batch fetch and page size <= N, the returned file
\* holds exactly the N rows of the table, in strictly ascending key order.
C1_CompleteExport ==
    \A t \in Tables :
        (/\ Returned(t)
         /\ hist[t].failures = 0
         /\ page_size <= db[t].n
         /\ Exists(fs, hist[t].returned))
        => RowsOf(t) = AllRows(t)

C1_Witness ==
    /\ Returned("leads_db")
    /\ hist["leads_db"].failures = 0
    /\ db["leads_db"].n = MaxRows
    /\ page_size = 2
    /\ Exists(fs, hist["leads_db"].returned)
    /\ Len(RowsOf("leads_db")) = MaxRows

C3_FirstBatchFailureRaises ==
    \A t \in Tables :
        hist[t].failedFirst =>
            /\ hist[t].outcome = "raised"
            /\ hist[t].returned = NoPath

\* C4: a returned path without the partial marker names a file that
\* contains every row of the table, whatever batch fetches failed.
C4_UnmarkedIsWhole ==
    \A t \in Tables :
        (/\ Returned(t)
         /\ ~hist[t].returned.partial
         /\ Exists(fs, hist[t].returned))
        => \A k \in KeysOf(t) :
               \E i \in 1 .. Len(RowsOf(t)) : RowsOf(t)[i] = k

C4_Witness ==
    /\ Returned("leads_db")
    /\ hist["leads_db"].failures = MaxFailures
    /\ hist["leads_db"].failedLater
    /\ ~hist["leads_db"].returned.partial
    /\ db["leads_db"].n = MaxRows
    /\ page_size = 1
    /\ Exists(fs, hist["leads_db"].returned)

\* C5: the file an export returned is absent from local disk if and only
\* if its upload returned successfully.
C5_DeletedIffUploaded ==
    \A t \in Tables :
        Returned(t) =>
            (~Exists(fs, hist[t].returned) <=> hist[t].upload = "ok")

C5_Witness ==
    /\ hist["leads_db"].upload = "ok"
    /\ ~Exists(fs, hist["leads_db"].returned)
    /\ hist["orgs_db"].upload = "failed"
    /\ Exists(fs, hist["orgs_db"].returned)

\* C6: when the run is over, an export has been attempted for every
\* configured table, whatever happened to the earlier ones.
C6_EveryTableAttempted ==
    Terminated => \A t \in Tables : hist[t].attempted

\* C7: when the run is over and some upload failed, an upload has been
\* attempted for every table whose export returned a file.
C7_UploadFailureDoesNotAbort ==
    (Terminated /\ \E t \in Tables : hist[t].upload = "failed")
    => \A u \in Tables : Returned(u) => hist[u].upload # "none"

\* C8: a failing row-count call does not abort the export: an export that
\* ended after its row-count call failed has still fetched batches.
C8_CountFailureDoesNotAbort ==
    \A t \in Tables :
        (hist[t].countFailed /\ hist[t].outcome # "none") =>
            hist[t].fetches > 0

\* C9: once upload_to_drive has returned or raised, credentials.json is
\* no longer on local disk.
C9_CredentialsRemoved ==
    (\E t \in Tables : hist[t].upload # "none") => ~credentials

\* C10: the uploader is never called for a table whose first batch fetch
\* failed with zero rows written.
C10_NoUploadAfterAbort ==
    \A t \in Tables : hist[t].failedFirst => hist[t].upload = "none"

\* C11: every file on disk has the header of its table's first row (the
\* minimal header for an empty table), and each of its data records is
\* some table row laid out on that header: as many values as the header
\* has columns, in header order, the row's value where the row has the
\* column and the empty value where it has not; values of columns outside
\* the header do not appear.
C11_RecordsAlignedToHeader ==
    \A p \in DOMAIN fs :
        LET f == fs[p]
            t == p.table
        IN  /\ f.header = IF db[t].n = 0 THEN <<"id">> ELSE db[t].headers
            /\ \A j \in 1 .. Len(f.rows) :
                   \E k \in KeysOf(t) :
                       /\ Len(f.rows[j]) = Len(f.header)
                       /\ \A i \in 1 .. Len(f.header) :
                              f.rows[j][i] =
                                  IF f.header[i] \in RowCols(t, k)
                                  THEN Cell(f.header[i], k)
                                  ELSE Empty

C11_Witness ==
    /\ db["leads_db"].ragged
    /\ Exists(fs, Filename("leads_db"))
    /\ Len(fs[Filename("leads_db")].rows) = MaxRows
    /\ \E i \in 1 .. Len(fs[Filename("leads_db")].header) :
           fs[Filename("leads_db")].rows[2][i] = Empty

\* C12: the export of a table without rows, once its structure query has
\* answered, is not an error: it ends by returning the plain file name,
\* having issued no batch fetch, and the file holds the minimal header
\* record and no data record.
C12_EmptyTableExport ==
    \A t \in Tables :
        (/\ db[t].n = 0
         /\ hist[t].outcome # "none"
         /\ ~hist[t].structureFailed)
        => /\ hist[t].outcome = "returned"
           /\ hist[t].returned = Filename(t)
           /\ hist[t].fetches = 0
           /\ hist[t].upload # "ok" =>
                  /\ Exists(fs, Filename(t))
                  /\ fs[Filename(t)] = [header |-> <<"id">>, rows |-> <<>>]

C12_Witness ==
    /\ db["orgs_db"].n = 0
    /\ hist["orgs_db"].outcome = "returned"
    /\ Exists(fs, Filename("orgs_db"))
    /\ pc = "upload_leads"

\* C13: when the export of an unchanged table returns in a re-run and no
\* batch fetch failed in either run, the file it yields has the header
\* and the number of data records of the file the first run yielded.
C13_RerunSameHeaderAndCount ==
    \A t \in Tables :
        (/\ hist[t].run = 2
         /\ Returned(t)
         /\ hist[t].failures = 0
         /\ hist[t].prev.outcome = "returned"
         /\ hist[t].prev.failures = 0)
        => /\ hist[t].header = hist[t].prev.header
           /\ hist[t].count = hist[t].prev.count

C13_Witness ==
    /\ hist["leads_db"].run = 2
    /\ Returned("leads_db")
    /\ hist["leads_db"].failures = 0
    /\ hist["leads_db"].fetches > 1
    /\ hist["leads_db"].prev.outcome = "returned"
    /\ hist["leads_db"].prev.failures = 0
    /\ hist["leads_db"].prev.count = MaxRows
    /\ hist["leads_db"].count = MaxRows

\* C14: every export that was started eventually ends, by returning a path
\* or by raising, whatever batch fetches succeed or fail.
C14_ExportTerminates ==
    \A t \in Tables : hist[t].attempted ~> (hist[t].outcome # "none")

\* A step in which a batch fetch of the export of t raises.
FetchFailed(t) == hist'[t].failures = hist[t].failures + 1

Current == CHOOSE t \in Tables : pc = ExportPc(t)

\* Cursor b is a key value beyond cursor a.
Beyond(b, a) ==
    /\ b[1] = "key"
    /\ IF a = None THEN TRUE
       ELSE IF a[1] = "key" THEN b[2] > a[2]
       ELSE FALSE

\* C16: the cursor is unset when the loop is entered; while the loop runs
\* every step either leaves it as it is or moves it to a greater key, and a
\* step that writes a batch moves it to the key of the last record written.
C16_CursorOnlyAdvances ==
    [][/\ (epc = "count" /\ epc' = "loop") => last_id' = None
       /\ (epc = "loop" /\ epc' = "loop") =>
              (last_id' = last_id \/ Beyond(last_id', last_id))
       /\ (epc = "loop" /\ rows_exported' > rows_exported) =>
              LET ks == KeysIn(fs'[Filename(Current)])
              IN  /\ Beyond(last_id', last_id)
                  /\ last_id' = KeyVal(ks[Len(ks)])]_vars

C16_Witness ==
    /\ pc = "export_leads" /\ epc = "loop"
    /\ page_size = 1
    /\ hist["leads_db"].failedLater
    /\ rows_exported = MaxRows
    /\ last_id = KeyVal(MaxRows)

\* The keys ks are strictly ascending.
StrictlyAscending(ks) ==
    \A i \in 1 .. Len(ks) : \A j \in 1 .. Len(ks) : i < j => ks[i] < ks[j]

\* C17: in every reachable state the keys of the data records of every
\* file on disk are strictly ascending (so no row is written twice),
\* whatever batch fetches failed; and no step decreases the count of rows
\* written or the number of records of a file.
C17_AscendingNoDuplicates ==
    /\ [](\A p \in DOMAIN fs : StrictlyAscending(KeysIn(fs[p])))
    /\ [][/\ epc = "loop" => rows_exported' >= rows_exported
          /\ \A p \in (DOMAIN fs) \cap (DOMAIN fs') :
                 Len(fs'[p].rows) >= Len(fs[p].rows)]_vars

C17_Witness ==
    /\ pc = "export_leads" /\ epc = "loop"
    /\ page_size = 2
    /\ hist["leads_db"].failures = MaxFailures
    /\ hist["leads_db"].failedLater
    /\ Len(fs[Filename("leads_db")].rows) = MaxRows
    /\ KeysIn(fs[Filename("leads_db")])[MaxRows] = MaxRows

\* ceil(n / p)
Ceil(n, p) == (n + p - 1) \div p

\* C18 (as stated): an export of N > 0 rows with page size P and no failing
\* fetch issues ceil(N/P) fetches that return rows and then one fetch that
\* returns no row.
C18_EndsWithEmptyBatch ==
    \A t \in Tables :
        (Returned(t) /\ hist[t].failures = 0 /\ db[t].n > 0) =>
            /\ hist[t].fetches = Ceil(db[t].n, page_size) + 1
            /\ hist[t].empties = 1

\* C18 (amended): an export of N > 0 rows with page size P and no failing
\* fetch issues exactly ceil(N/P) batch fetches, each returning rows, and
\* no fetch that returns no row: the loop ends when the rows written reach
\* the total counted at the start.
C18_NoEmptyBatch ==
    \A t \in Tables :
        (Returned(t) /\ hist[t].failures = 0 /\ db[t].n > 0) =>
            /\ hist[t].fetches = Ceil(db[t].n, page_size)
            /\ hist[t].empties = 0

C18_Witness ==
    /\ Returned("orgs_db")
    /\ hist["orgs_db"].failures = 0
    /\ db["orgs_db"].n = MaxRows
    /\ page_size = 2
    /\ hist["orgs_db"].fetches = 2

\* The column names of header hs.
ColumnsOf(hs) == {hs[i] : i \in 1 .. Len(hs)}

\* C19: all batch queries of one export, failed ones included, filter and
\* order by one column; that column is "id" when the header has it,
\* otherwise a column of the header, and the first header column when the
\* header has none of the usual key names; and the choice does not change
\* while the loop runs.
C19_OneKeyColumn ==
    /\ [](\A t \in Tables :
              LET hs == db[t].headers
              IN  /\ Cardinality(hist[t].keyCols) <= 1
                  /\ \A c \in hist[t].keyCols :
                         /\ c \in ColumnsOf(hs)
                         /\ "id" \in ColumnsOf(hs) => c = "id"
                         /\ ColumnsOf(hs) \cap
                                {"id", "uuid", "primary_key", "key"} = {}
                            => c = hs[1])
    /\ [][(epc = "loop" /\ epc' = "loop") => id_field' = id_field]_vars

C19_Witness ==
    /\ db["leads_db"].headers = <<"name", "uuid">>
    /\ hist["leads_db"].keyCols = {"uuid"}
    /\ hist["leads_db"].failedLater
    /\ hist["leads_db"].fetches > hist["leads_db"].failures + 1
    /\ db["orgs_db"].headers = <<"email", "name">>
    /\ hist["orgs_db"].keyCols = {"email"}

====
